---- MODULE Spec2Model ----
(***************************************************************************)
(* Model of the two-pass tokenizer `tokenize` of src/src/lib.rs.           *)
(*                                                                         *)
(* One behaviour is one caller following the protocol of the tests: pick   *)
(* an input, allocate a scratch stack of the input's length, run the       *)
(* sizing pass (output = None), allocate a token buffer pre-filled with    *)
(* Token::Invalid, run the filling pass (output = Some(buffer)) on the     *)
(* same scratch.  One step of the scan is one iteration of the `for` loop. *)
(* Indices are 0-based as in the source; TLA+ sequences are 1-based, so    *)
(* the source's a[k] is written a[k + 1].                                  *)
(***************************************************************************)
EXTENDS Integers, Sequences, FiniteSets

\* Longest input explored.
MaxLen == 6

\* The four bytes the tokenizer treats specially, and one ordinary byte.
LBrace == "{"
RBrace == "}"
Comma == ","
Backslash == "\\"
Bytes == {LBrace, RBrace, Comma, Backslash, "a"}

RECURSIVE SeqsOfLen(_)
SeqsOfLen(n) ==
    IF n = 0 THEN {<<>>}
    ELSE {Append(p, b) : p \in SeqsOfLen(n - 1), b \in Bytes}

Inputs == UNION {SeqsOfLen(n) : n \in 0..MaxLen}

\* Option<T>: None is the empty tuple, Some(x) the one-element tuple.
None == <<>>
Some(x) == <<x>>

\* enum Token
Invalid == [kind |-> "Invalid"]
CharacterTok(offset, val) == [kind |-> "Character", offset |-> offset, val |-> val]
FunctionTok(offset, name, num_args, delta, first_arg_delta) ==
    [kind |-> "Function", offset |-> offset, name |-> name, num_args |-> num_args,
     delta |-> delta, first_arg_delta |-> first_arg_delta]
FunctionArgEndTok(offset, arg_delta) ==
    [kind |-> "FunctionArgEnd", offset |-> offset, arg_delta |-> arg_delta]

\* Result<usize, (usize, &'static str)>, plus "Running" (not yet returned) and
\* "Panic" (an out-of-bounds index, an arithmetic underflow or a failed
\* debug_assert! aborts the call).
Running == [tag |-> "Running", val |-> 0, reason |-> ""]
Ok(n) == [tag |-> "Ok", val |-> n, reason |-> ""]
Err(offset, reason) == [tag |-> "Err", val |-> offset, reason |-> reason]
Panicked == [tag |-> "Panic", val |-> 0, reason |-> ""]

VARIABLES
    input,                           \* input: &[u8]
    stack,                           \* stack: &mut [usize]
    output,                          \* output: &mut Option<&mut [Token]>
    output_index,
    escaped,
    function_stack_index,
    function_arg_begin_stack_index,
    function_name_begin,
    i,                               \* position of the `for` loop
    ret,                             \* what the call returned
    written,                         \* buffer slots assigned by send_output
    pass,                            \* "sizing" or "filling"
    sizing_ret                       \* what the sizing pass returned

vars == <<input, stack, output, output_index, escaped, function_stack_index,
          function_arg_begin_stack_index, function_name_begin, i, ret, written,
          pass, sizing_ret>>

\* The locals and buffers of one call, as a record.
Cur ==
    [stack |-> stack, output |-> output, output_index |-> output_index,
     escaped |-> escaped, function_stack_index |-> function_stack_index,
     function_arg_begin_stack_index |-> function_arg_begin_stack_index,
     function_name_begin |-> function_name_begin, i |-> i, ret |-> ret,
     written |-> written]

Apply(s) ==
    /\ stack' = s.stack
    /\ output' = s.output
    /\ output_index' = s.output_index
    /\ escaped' = s.escaped
    /\ function_stack_index' = s.function_stack_index
    /\ function_arg_begin_stack_index' = s.function_arg_begin_stack_index
    /\ function_name_begin' = s.function_name_begin
    /\ i' = s.i
    /\ ret' = s.ret
    /\ written' = s.written

\* Entry with the backward stack index started at the last slot instead of
\* one past it.
EntryLastIndex(stk, out) ==
    [stack |-> stk, output |-> out, output_index |-> 0, escaped |-> FALSE,
     function_stack_index |-> 0,
     function_arg_begin_stack_index |-> IF Len(stk) = 0 THEN 0 ELSE Len(stk) - 1,
     function_name_begin |-> None, i |-> 0, ret |-> [tag |-> "Running", val |-> 0, reason |-> ""],
     written |-> {}]

\* The state of a call at entry: lines 89-95.
Entry(stk, out) ==
    [stack |-> stk, output |-> out, output_index |-> 0, escaped |-> FALSE,
     function_stack_index |-> 0, function_arg_begin_stack_index |-> Len(stk),
     function_name_begin |-> None, i |-> 0, ret |-> Running, written |-> {}]

Live(s) == s.ret.tag = "Running"
Panic(s) == [s EXCEPT !.ret = Panicked]
InternalError(s) == [s EXCEPT !.ret = Err(0, "internal error")]
\* `continue`, or falling off the end of the loop body
Advance(s) == IF Live(s) THEN [s EXCEPT !.i = @ + 1] ELSE s

\* send_output with the increment of output_index placed in the arm without
\* a buffer.
SendOutputMisplacedIncrement(token_to_send, s) ==
    IF ~Live(s) THEN s
    ELSE IF s.output = None THEN [s EXCEPT !.output_index = @ + 1]
    ELSE IF s.output_index >= Len(s.output[1]) THEN Panic(s)
    ELSE [s EXCEPT !.output = Some([s.output[1] EXCEPT ![s.output_index + 1] = token_to_send]),
                   !.written = @ \cup {s.output_index}]

\* fn send_output
SendOutput(token_to_send, s) ==
    IF ~Live(s) THEN s
    ELSE IF s.output = None THEN [s EXCEPT !.output_index = @ + 1]
    ELSE IF s.output_index >= Len(s.output[1]) THEN Panic(s)
    ELSE [s EXCEPT !.output = Some([s.output[1] EXCEPT ![s.output_index + 1] = token_to_send]),
                   !.written = @ \cup {s.output_index},
                   !.output_index = @ + 1]

InBounds(k, len) == 0 <= k /\ k < len
Escapable == {LBrace, RBrace, Comma, Backslash}
\* *ch of the current iteration
Ch(inp, s) == inp[s.i + 1]

\* The escaped byte sent at its own position instead of the backslash's.
DoEscapedSpecialOwnOffset(inp, s) ==
    LET sent == SendOutput(CharacterTok(s.i, Ch(inp, s)), s)
    IN  Advance(IF Live(sent) THEN [sent EXCEPT !.escaped = FALSE] ELSE sent)

\* Lines 111-147, first arm: an escaped `{`, `}`, `,` or `\` is sent as itself.
DoEscapedSpecial(inp, s) ==
    IF s.i < 1 THEN Panic(s)
    ELSE LET sent == SendOutput(CharacterTok(s.i - 1, Ch(inp, s)), s)
         IN  Advance(IF Live(sent) THEN [sent EXCEPT !.escaped = FALSE] ELSE sent)

\* The two literal bytes sent with their offsets exchanged.
DoEscapedOtherSwapped(inp, s) ==
    IF s.i < 1 THEN Panic(s)
    ELSE LET sent == SendOutput(CharacterTok(s.i - 1, Ch(inp, s)),
                                SendOutput(CharacterTok(s.i, Backslash), s))
         IN  Advance(IF Live(sent) THEN [sent EXCEPT !.escaped = FALSE] ELSE sent)

\* Lines 111-147, second arm: any other byte sends the backslash, then the byte.
DoEscapedOther(inp, s) ==
    IF s.i < 1 THEN Panic(s)
    ELSE LET sent == SendOutput(CharacterTok(s.i, Ch(inp, s)),
                                SendOutput(CharacterTok(s.i - 1, Backslash), s))
         IN  Advance(IF Live(sent) THEN [sent EXCEPT !.escaped = FALSE] ELSE sent)

\* The backslash sent as a literal as soon as it is read.
DoBackslashSendsLiteral(s) ==
    Advance(SendOutput(CharacterTok(s.i, Backslash), [s EXCEPT !.escaped = TRUE]))

\* Lines 149-152
DoBackslash(s) == Advance([s EXCEPT !.escaped = TRUE])

\* The name started at the `{` itself instead of one past it.
DoOpenBraceAtBrace(s) == Advance([s EXCEPT !.function_name_begin = Some(s.i)])

\* Lines 154-157
DoOpenBrace(s) == Advance([s EXCEPT !.function_name_begin = Some(s.i + 1)])

\* The character counted but not stored in the buffer.
DoCharacterCountOnly(inp, s) == Advance([s EXCEPT !.output_index = @ + 1])

\* Lines 159-169
DoCharacter(inp, s) == Advance(SendOutput(CharacterTok(s.i, Ch(inp, s)), s))

\* num_args incremented on the function at the bottom of the forward stack.
IncNumArgsOutermost(s) ==
    IF ~Live(s) \/ s.output = None THEN s
    ELSE LET o == s.output[1]
             index == s.stack[1]
         IN  IF ~InBounds(index, Len(o)) THEN Panic(s)
             ELSE IF o[index + 1].kind = "Function"
             THEN [s EXCEPT !.output =
                      Some([o EXCEPT ![index + 1].num_args = @ + 1])]
             ELSE InternalError(s)

\* Lines 171-183: increment num_args of the function on top of the forward stack.
IncNumArgs(s) ==
    IF ~Live(s) \/ s.output = None THEN s
    ELSE IF ~InBounds(s.function_stack_index - 1, Len(s.stack)) THEN Panic(s)
    ELSE LET o == s.output[1]
             index == s.stack[s.function_stack_index]
         IN  IF ~InBounds(index, Len(o)) THEN Panic(s)
             ELSE IF o[index + 1].kind = "Function"
             THEN [s EXCEPT !.output =
                      Some([o EXCEPT ![index + 1].num_args = @ + 1])]
             ELSE InternalError(s)

\* The argument size written to the function on top of the forward stack
\* instead of the pending marker on top of the backward stack.
SetArgSizeOnTopFunction(s) ==
    IF ~Live(s) \/ s.output = None THEN s
    ELSE LET o == s.output[1]
             index == s.stack[s.function_stack_index]
         IN  IF ~InBounds(index, Len(o)) THEN Panic(s)
             ELSE IF o[index + 1].kind = "Function"
             THEN [s EXCEPT !.output = Some([o EXCEPT ![index + 1].first_arg_delta =
                                                Some(s.output_index - index)])]
             ELSE InternalError(s)

\* The argument size of a FunctionArgEnd counted one token too far.
SetArgSizeOffByOne(s) ==
    IF ~Live(s) \/ s.output = None THEN s
    ELSE IF ~InBounds(s.function_arg_begin_stack_index, Len(s.stack)) THEN Panic(s)
    ELSE LET o == s.output[1]
             index == s.stack[s.function_arg_begin_stack_index + 1]
         IN  IF ~InBounds(index, Len(o)) THEN Panic(s)
             ELSE IF o[index + 1].kind = "Function"
             THEN [s EXCEPT !.output = Some([o EXCEPT ![index + 1].first_arg_delta =
                                                Some(s.output_index - index)])]
             ELSE IF o[index + 1].kind = "FunctionArgEnd"
             THEN [s EXCEPT !.output = Some([o EXCEPT ![index + 1].arg_delta =
                                                Some(s.output_index - index + 1)])]
             ELSE InternalError(s)

\* Lines 185-202: set the size of the argument that just ended.
SetArgSize(s) ==
    IF ~Live(s) \/ s.output = None THEN s
    ELSE IF ~InBounds(s.function_arg_begin_stack_index, Len(s.stack)) THEN Panic(s)
    ELSE LET o == s.output[1]
             index == s.stack[s.function_arg_begin_stack_index + 1]
         IN  IF ~InBounds(index, Len(o)) THEN Panic(s)
             ELSE IF o[index + 1].kind = "Function"
             THEN IF s.output_index < index THEN Panic(s)
                  ELSE [s EXCEPT !.output = Some([o EXCEPT ![index + 1].first_arg_delta =
                                                     Some(s.output_index - index)])]
             ELSE IF o[index + 1].kind = "FunctionArgEnd"
             THEN IF s.output_index < index THEN Panic(s)
                  ELSE [s EXCEPT !.output = Some([o EXCEPT ![index + 1].arg_delta =
                                                     Some(s.output_index - index)])]
             ELSE InternalError(s)

\* The top of the backward stack left as it was.
SetArgBeginSkipped(s) == s

\* Line 204: the marker about to be sent replaces the top of the backward stack.
SetArgBegin(s) ==
    IF ~Live(s) THEN s
    ELSE IF ~InBounds(s.function_arg_begin_stack_index, Len(s.stack)) THEN Panic(s)
    ELSE [s EXCEPT !.stack[s.function_arg_begin_stack_index + 1] = s.output_index]

\* The pop of the forward stack alone: the backward stack keeps its entry.
PopFunctionForwardOnly(s) ==
    IF ~Live(s) THEN s
    ELSE IF s.function_stack_index < 1 THEN Panic(s)
    ELSE LET p == [s EXCEPT !.function_stack_index = @ - 1]
         IN  IF p.output = None THEN p
             ELSE LET o == p.output[1]
                      index == p.stack[p.function_stack_index + 1]
                  IN  IF ~InBounds(index, Len(o)) THEN Panic(p)
                      ELSE IF o[index + 1].kind = "Function"
                      THEN [p EXCEPT !.output = Some([o EXCEPT ![index + 1].delta =
                                                         p.output_index - index])]
                      ELSE InternalError(p)

\* The size of the function taken before its closing marker is counted.
PopFunctionShort(s) ==
    IF ~Live(s) THEN s
    ELSE IF s.function_stack_index < 1 THEN Panic(s)
    ELSE LET p == [s EXCEPT !.function_stack_index = @ - 1,
                            !.function_arg_begin_stack_index = @ + 1]
         IN  IF p.output = None THEN p
             ELSE LET o == p.output[1]
                      index == p.stack[p.function_stack_index + 1]
                  IN  IF ~InBounds(index, Len(o)) THEN Panic(p)
                      ELSE IF o[index + 1].kind = "Function"
                      THEN [p EXCEPT !.output = Some([o EXCEPT ![index + 1].delta =
                                                         p.output_index - index - 1])]
                      ELSE InternalError(p)

\* Lines 215-234: `}` pops both stacks and sets the size of the function.
PopFunction(s) ==
    IF ~Live(s) THEN s
    ELSE IF s.function_stack_index < 1 THEN Panic(s)
    ELSE LET p == [s EXCEPT !.function_stack_index = @ - 1,
                            !.function_arg_begin_stack_index = @ + 1]
         IN  IF p.output = None THEN p
             ELSE IF ~InBounds(p.function_stack_index, Len(p.stack)) THEN Panic(p)
             ELSE LET o == p.output[1]
                      index == p.stack[p.function_stack_index + 1]
                  IN  IF ~InBounds(index, Len(o)) THEN Panic(p)
                      ELSE IF o[index + 1].kind = "Function"
                      THEN IF p.output_index < index THEN Panic(p)
                           ELSE [p EXCEPT !.output = Some([o EXCEPT ![index + 1].delta =
                                                              p.output_index - index])]
                      ELSE InternalError(p)

\* Lines 171-234: an unescaped `,` or `}` while a function is open.
DoDelimiter(inp, s) ==
    LET marked == SendOutput(FunctionArgEndTok(s.i, None),
                             SetArgBegin(SetArgSize(IncNumArgs(s))))
    IN  Advance(IF Ch(inp, s) = RBrace THEN PopFunction(marked) ELSE marked)

\* The store on the backward stack done before the decrement of its index.
PushFunctionStoreBeforeDecrement(s) ==
    IF ~InBounds(s.function_stack_index, Len(s.stack)) THEN Panic(s)
    ELSE IF ~InBounds(s.function_arg_begin_stack_index, Len(s.stack)) THEN Panic(s)
    ELSE [s EXCEPT !.stack = [[@ EXCEPT ![s.function_stack_index + 1] = s.output_index]
                                 EXCEPT ![s.function_arg_begin_stack_index + 1] =
                                            s.output_index],
                   !.function_stack_index = @ + 1,
                   !.function_arg_begin_stack_index = @ - 1]

\* The push done with the index of the token after the function.
PushFunctionAfterSend(s) ==
    IF ~InBounds(s.function_stack_index, Len(s.stack)) THEN Panic(s)
    ELSE IF s.function_arg_begin_stack_index < 1 THEN Panic(s)
    ELSE LET fwd == [s EXCEPT !.stack[s.function_stack_index + 1] = s.output_index + 1,
                              !.function_stack_index = @ + 1,
                              !.function_arg_begin_stack_index = @ - 1]
         IN  IF ~InBounds(fwd.function_arg_begin_stack_index, Len(fwd.stack)) THEN Panic(fwd)
             ELSE [fwd EXCEPT !.stack[fwd.function_arg_begin_stack_index + 1] =
                                  fwd.output_index + 1]

\* The push without the store on the backward stack.
PushFunctionForwardOnly(s) ==
    IF ~InBounds(s.function_stack_index, Len(s.stack)) THEN Panic(s)
    ELSE IF s.function_arg_begin_stack_index < 1 THEN Panic(s)
    ELSE [s EXCEPT !.stack[s.function_stack_index + 1] = s.output_index,
                   !.function_stack_index = @ + 1,
                   !.function_arg_begin_stack_index = @ - 1]

\* Lines 248-253: push the index of the function about to be sent on both stacks.
PushFunction(s) ==
    IF ~InBounds(s.function_stack_index, Len(s.stack)) THEN Panic(s)
    ELSE IF s.function_arg_begin_stack_index < 1 THEN Panic(s)
    ELSE LET fwd == [s EXCEPT !.stack[s.function_stack_index + 1] = s.output_index,
                              !.function_stack_index = @ + 1,
                              !.function_arg_begin_stack_index = @ - 1]
         IN  IF ~InBounds(fwd.function_arg_begin_stack_index, Len(fwd.stack)) THEN Panic(fwd)
             ELSE [fwd EXCEPT !.stack[fwd.function_arg_begin_stack_index + 1] =
                                  fwd.output_index]

\* The Function token located at the start of its name instead of its `{`.
DoNameEndNameOffset(inp, s) ==
    LET v == s.function_name_begin[1]
        name == SubSeq(inp, v + 1, s.i)
        left == [s EXCEPT !.function_name_begin = None]
    IN  IF Ch(inp, s) = Comma
        THEN Advance(SendOutput(FunctionTok(v, name, 0, 0, None), PushFunction(left)))
        ELSE Advance(SendOutput(FunctionTok(v, name, 0, 1, None), left))

\* The name end without `function.delta = 1` for a function closed by `}`.
DoNameEndDeltaUnset(inp, s) ==
    LET v == s.function_name_begin[1]
        name == SubSeq(inp, v + 1, s.i)
        left == [s EXCEPT !.function_name_begin = None]
    IN  IF Ch(inp, s) = Comma
        THEN Advance(SendOutput(FunctionTok(v - 1, name, 0, 0, None), PushFunction(left)))
        ELSE Advance(SendOutput(FunctionTok(v - 1, name, 0, 0, None), left))

\* Lines 238-265: the `,` or `}` that ends a function name.
DoNameEnd(inp, s) ==
    LET v == s.function_name_begin[1]
    IN  IF v < 1 \/ v > s.i THEN Panic(s)
        ELSE LET name == SubSeq(inp, v + 1, s.i)
                 left == [s EXCEPT !.function_name_begin = None]
             IN  IF Ch(inp, s) = Comma
                 THEN Advance(SendOutput(FunctionTok(v - 1, name, 0, 0, None),
                                         PushFunction(left)))
                 ELSE Advance(SendOutput(FunctionTok(v - 1, name, 0, 1, None), left))

\* Lines 236-266, any other byte: the name goes on.
DoNameContinue(s) == Advance(s)

\* The arms without the test that a function is open.
BranchNoDepthTest(inp, s) ==
    LET ch == Ch(inp, s)
    IN  IF s.function_name_begin = None
        THEN IF s.escaped
             THEN IF ch \in Escapable THEN "escaped_special" ELSE "escaped_other"
             ELSE IF ch = Backslash THEN "backslash"
             ELSE IF ch = LBrace THEN "open_brace"
             ELSE IF ch # Comma /\ ch # RBrace THEN "character"
             ELSE "delimiter"
        ELSE IF ch = Comma \/ ch = RBrace THEN "name_end" ELSE "name_continue"

\* Which arm of the loop body the current byte takes.
Branch(inp, s) ==
    LET ch == Ch(inp, s)
    IN  IF s.function_name_begin = None
        THEN IF s.escaped
             THEN IF ch \in Escapable THEN "escaped_special" ELSE "escaped_other"
             ELSE IF ch = Backslash THEN "backslash"
             ELSE IF ch = LBrace THEN "open_brace"
             ELSE IF s.function_stack_index = 0 \/ (ch # Comma /\ ch # RBrace)
             THEN "character"
             ELSE "delimiter"
        ELSE IF ch = Comma \/ ch = RBrace THEN "name_end" ELSE "name_continue"

\* Lines 108-268: one iteration of the loop.
LoopBody(inp, s) ==
    LET b == Branch(inp, s)
    IN  CASE b = "escaped_special" -> DoEscapedSpecial(inp, s)
          [] b = "escaped_other" -> DoEscapedOther(inp, s)
          [] b = "backslash" -> DoBackslash(s)
          [] b = "open_brace" -> DoOpenBrace(s)
          [] b = "character" -> DoCharacter(inp, s)
          [] b = "delimiter" -> DoDelimiter(inp, s)
          [] b = "name_end" -> DoNameEnd(inp, s)
          [] b = "name_continue" -> DoNameContinue(s)

\* The two checks after the loop in the other order.
AtEndUnclosedFirst(s) ==
    IF s.function_stack_index # 0 /\ s.output # None
    THEN LET o == s.output[1]
             index == s.stack[s.function_stack_index]
         IN  IF ~InBounds(index, Len(o)) THEN Panic(s)
             ELSE IF o[index + 1].kind = "Function"
             THEN [s EXCEPT !.ret = Err(o[index + 1].offset, "unclosed function")]
             ELSE InternalError(s)
    ELSE IF s.function_name_begin # None
    THEN [s EXCEPT !.ret = Err(s.function_name_begin[1], "function name wasn't completed")]
    ELSE [s EXCEPT !.ret = Ok(s.output_index)]

\* The unclosed function reported from the bottom of the forward stack.
AtEndOutermost(s) ==
    IF s.function_name_begin # None
    THEN [s EXCEPT !.ret = Err(s.function_name_begin[1], "function name wasn't completed")]
    ELSE IF s.function_stack_index # 0 /\ s.output # None
    THEN LET o == s.output[1]
             index == s.stack[1]
         IN  IF ~InBounds(index, Len(o)) THEN Panic(s)
             ELSE IF o[index + 1].kind = "Function"
             THEN [s EXCEPT !.ret = Err(o[index + 1].offset, "unclosed function")]
             ELSE InternalError(s)
    ELSE [s EXCEPT !.ret = Ok(s.output_index)]

\* The incomplete name reported at its `{` instead of at the name's start.
AtEndBraceOffset(s) ==
    IF s.function_name_begin # None
    THEN [s EXCEPT !.ret = Err(s.function_name_begin[1] - 1, "function name wasn't completed")]
    ELSE IF s.function_stack_index # 0 /\ s.output # None
    THEN LET o == s.output[1]
             index == s.stack[s.function_stack_index]
         IN  IF ~InBounds(index, Len(o)) THEN Panic(s)
             ELSE IF o[index + 1].kind = "Function"
             THEN [s EXCEPT !.ret = Err(o[index + 1].offset, "unclosed function")]
             ELSE InternalError(s)
    ELSE [s EXCEPT !.ret = Ok(s.output_index)]

\* An escape left open by the end of the input reported as an error.
AtEndRejectsOpenEscape(s) ==
    IF s.function_name_begin # None
    THEN [s EXCEPT !.ret = Err(s.function_name_begin[1], "function name wasn't completed")]
    ELSE IF s.escaped
    THEN [s EXCEPT !.ret = Err(s.i - 1, "escape wasn't completed")]
    ELSE IF s.function_stack_index # 0 /\ s.output # None
    THEN LET o == s.output[1]
             index == s.stack[s.function_stack_index]
         IN  IF ~InBounds(index, Len(o)) THEN Panic(s)
             ELSE IF o[index + 1].kind = "Function"
             THEN [s EXCEPT !.ret = Err(o[index + 1].offset, "unclosed function")]
             ELSE InternalError(s)
    ELSE [s EXCEPT !.ret = Ok(s.output_index)]

\* Lines 270-294: the checks after the loop, and the return value.
AtEnd(s) ==
    IF s.function_name_begin # None
    THEN [s EXCEPT !.ret = Err(s.function_name_begin[1], "function name wasn't completed")]
    ELSE IF s.function_stack_index # 0 /\ s.output # None
    THEN IF ~InBounds(s.function_stack_index - 1, Len(s.stack)) THEN Panic(s)
         ELSE LET o == s.output[1]
                  index == s.stack[s.function_stack_index]
              IN  IF ~InBounds(index, Len(o)) THEN Panic(s)
                  ELSE IF o[index + 1].kind = "Function"
                  THEN [s EXCEPT !.ret = Err(o[index + 1].offset, "unclosed function")]
                  ELSE InternalError(s)
    ELSE [s EXCEPT !.ret = Ok(s.output_index)]

\* Lines 76-295: the whole call, from a state of the scan to its return.
RECURSIVE Scan(_, _)
Scan(inp, s) ==
    IF ~Live(s) THEN s
    ELSE IF s.i = Len(inp) THEN AtEnd(s)
    ELSE Scan(inp, LoopBody(inp, s))

Tokenize(inp, stk, out) == Scan(inp, Entry(stk, out))

\* The buffers the caller allocates, as in the tests: [0usize; L] and
\* [Token::default(); OUTPUT_SIZE].
ZeroStack(len) == [k \in 1..len |-> 0]
InvalidBuffer(len) == [k \in 1..len |-> Invalid]

\* Scratch buffers of the right length with other contents than zeros: a
\* stale index everywhere, an index no buffer has, and distinct entries.
OtherStacks(len) ==
    {[k \in 1..len |-> 1], [k \in 1..len |-> len + 3], [k \in 1..len |-> len - k]}

Init ==
    /\ input \in Inputs
    /\ pass = "sizing"
    /\ sizing_ret = Running
    /\ LET s == Entry(ZeroStack(Len(input)), None)
       IN  /\ stack = s.stack
           /\ output = s.output
           /\ output_index = s.output_index
           /\ escaped = s.escaped
           /\ function_stack_index = s.function_stack_index
           /\ function_arg_begin_stack_index = s.function_arg_begin_stack_index
           /\ function_name_begin = s.function_name_begin
           /\ i = s.i
           /\ ret = s.ret
           /\ written = s.written

Scanning == ret.tag = "Running" /\ i < Len(input)
Frame == UNCHANGED <<input, pass, sizing_ret>>

EscapedSpecial ==
    /\ Scanning /\ Branch(input, Cur) = "escaped_special"
    /\ Apply(DoEscapedSpecial(input, Cur)) /\ Frame

EscapedOther ==
    /\ Scanning /\ Branch(input, Cur) = "escaped_other"
    /\ Apply(DoEscapedOther(input, Cur)) /\ Frame

BackslashSeen ==
    /\ Scanning /\ Branch(input, Cur) = "backslash"
    /\ Apply(DoBackslash(Cur)) /\ Frame

OpenBrace ==
    /\ Scanning /\ Branch(input, Cur) = "open_brace"
    /\ Apply(DoOpenBrace(Cur)) /\ Frame

PlainCharacter ==
    /\ Scanning /\ Branch(input, Cur) = "character"
    /\ Apply(DoCharacter(input, Cur)) /\ Frame

Delimiter ==
    /\ Scanning /\ Branch(input, Cur) = "delimiter"
    /\ Apply(DoDelimiter(input, Cur)) /\ Frame

NameEnd ==
    /\ Scanning /\ Branch(input, Cur) = "name_end"
    /\ Apply(DoNameEnd(input, Cur)) /\ Frame

NameContinue ==
    /\ Scanning /\ Branch(input, Cur) = "name_continue"
    /\ Apply(DoNameContinue(Cur)) /\ Frame

EndOfInput ==
    /\ ret.tag = "Running" /\ i = Len(input)
    /\ Apply(AtEnd(Cur)) /\ Frame

\* The caller, after a sizing pass that returned Ok(n): a buffer of n invalid
\* tokens, and the second call on the same scratch stack.
StartFilling ==
    /\ pass = "sizing" /\ ret.tag = "Ok"
    /\ pass' = "filling"
    /\ sizing_ret' = ret
    /\ Apply(Entry(stack, Some(InvalidBuffer(ret.val))))
    /\ UNCHANGED input

\* A caller that goes on to the second call although the sizing pass failed,
\* with a buffer that holds the tokens counted up to the end of the input.
StartFillingAfterErr ==
    /\ pass = "sizing" /\ ret.tag = "Err"
    /\ pass' = "filling"
    /\ sizing_ret' = ret
    /\ Apply(Entry(stack, Some(InvalidBuffer(output_index))))
    /\ UNCHANGED input

Next ==
    \/ EscapedSpecial
    \/ EscapedOther
    \/ BackslashSeen
    \/ OpenBrace
    \/ PlainCharacter
    \/ Delimiter
    \/ NameEnd
    \/ NameContinue
    \/ EndOfInput
    \/ StartFilling
    \/ StartFillingAfterErr

Spec == Init /\ [][Next]_vars

\* ------------------------------------------------------------------------
\* Vocabulary of the properties.

Returned == ret.tag # "Running"
FillingOk == pass = "filling" /\ ret.tag = "Ok"
Buffer == output[1]
TypeOK ==
    /\ ret.tag \in {"Running", "Ok", "Err"}
    /\ output_index \in 0..Len(input)

\* The lexical structure of the first n bytes of an input, read off the grammar
\* alone (no tokens, no scratch stack): whether the next byte is ordinary text,
\* follows an escaping backslash or belongs to a function name; the position of
\* the `{` of the name being collected; and the positions of the `{` of the
\* functions that have seen their name-ending `,` and not yet their `}`,
\* outermost first.
RECURSIVE Lex(_, _)
Lex(inp, n) ==
    IF n = 0 THEN [mode |-> "text", brace |-> 0, opens |-> <<>>]
    ELSE LET r == Lex(inp, n - 1)
             ch == inp[n]
         IN  CASE r.mode = "esc" -> [r EXCEPT !.mode = "text"]
               [] r.mode = "name" ->
                    IF ch = Comma
                    THEN [r EXCEPT !.mode = "text", !.opens = Append(@, r.brace)]
                    ELSE IF ch = RBrace THEN [r EXCEPT !.mode = "text"]
                    ELSE r
               [] r.mode = "text" ->
                    IF ch = Backslash THEN [r EXCEPT !.mode = "esc"]
                    ELSE IF ch = LBrace THEN [r EXCEPT !.mode = "name", !.brace = n - 1]
                    ELSE IF ch = RBrace /\ r.opens # <<>>
                    THEN [r EXCEPT !.opens = SubSeq(@, 1, Len(@) - 1)]
                    ELSE r

AtEndOfInput == Lex(input, Len(input))
\* Nesting level of a token: the number of functions open where it begins.
Level(tok) == Len(Lex(input, tok.offset).opens)
Tokens == 1..Len(Buffer)
Functions == {k \in Tokens : Buffer[k].kind = "Function"}
ArgEnds == {k \in Tokens : Buffer[k].kind = "FunctionArgEnd"}

\* ------------------------------------------------------------------------
\* C1: when the sizing pass returned Ok(n) and the filling pass, given a
\* buffer of n tokens, returned Ok(m), then m = n and send_output assigned
\* exactly the slots 0..n-1 of the buffer.
C1_SizingMatchesFilling ==
    (pass = "filling" /\ sizing_ret.tag = "Ok" /\ ret.tag = "Ok")
        => /\ Len(Buffer) = sizing_ret.val
           /\ ret.val = sizing_ret.val
           /\ written = 0..(sizing_ret.val - 1)

C1_Witness ==
    /\ FillingOk /\ sizing_ret.tag = "Ok"
    /\ ret.val >= 4
    /\ Functions # {} /\ ArgEnds # {}
    /\ \E k \in Tokens : Buffer[k].kind = "Character"

\* C2: after a successful filling pass, the delta of every Function token
\* spans exactly its subtree: the tokens after it and before index k + delta
\* are nested deeper than the function, and index k + delta is the end of the
\* buffer or a token at the function's own level.
C2_DeltaSpansSubtree ==
    FillingOk =>
        \A k \in Functions :
            LET d == Buffer[k].delta
                l == Level(Buffer[k])
            IN  /\ d >= 1
                /\ k + d <= Len(Buffer) + 1
                /\ \A j \in (k + 1)..(k + d - 1) : Level(Buffer[j]) > l
                /\ k + d <= Len(Buffer) => Level(Buffer[k + d]) = l

C2_Witness ==
    /\ FillingOk
    /\ \E k \in Functions :
          /\ Buffer[k].delta >= 2
          /\ Level(Buffer[k]) = 1
          /\ k + Buffer[k].delta <= Len(Buffer)

\* The FunctionArgEnd chain from position pos: the number of markers visited
\* when the chain is made of FunctionArgEnd tokens only and ends in None, and
\* -1 when it leaves the buffer, meets another token or runs out of fuel.
RECURSIVE ChainCount(_, _, _)
ChainCount(buf, pos, fuel) ==
    IF fuel = 0 \/ pos \notin 1..Len(buf) THEN -1
    ELSE IF buf[pos].kind # "FunctionArgEnd" THEN -1
    ELSE IF buf[pos].arg_delta = None THEN 1
    ELSE LET rest == ChainCount(buf, pos + buf[pos].arg_delta[1], fuel - 1)
         IN  IF rest < 0 THEN -1 ELSE rest + 1

\* The position at which that chain ends (0 when it does not end).
RECURSIVE ChainLast(_, _, _)
ChainLast(buf, pos, fuel) ==
    IF fuel = 0 \/ pos \notin 1..Len(buf) THEN 0
    ELSE IF buf[pos].kind # "FunctionArgEnd" THEN 0
    ELSE IF buf[pos].arg_delta = None THEN pos
    ELSE ChainLast(buf, pos + buf[pos].arg_delta[1], fuel - 1)

\* C3: after a successful filling pass, the first_arg_delta/arg_delta chain of
\* every Function token visits FunctionArgEnd tokens only, exactly num_args of
\* them, and ends at one with arg_delta None (the marker that closes the
\* function); first_arg_delta is None iff num_args = 0; and a FunctionArgEnd
\* has arg_delta None iff its delimiter is the `}` ending the last argument.
C3_ArgChain ==
    FillingOk =>
        /\ \A k \in Functions :
              LET f == Buffer[k]
              IN  /\ (f.first_arg_delta = None) <=> (f.num_args = 0)
                  /\ f.first_arg_delta # None =>
                        /\ f.first_arg_delta[1] >= 1
                        /\ ChainCount(Buffer, k + f.first_arg_delta[1], Len(Buffer))
                              = f.num_args
                        /\ ChainLast(Buffer, k + f.first_arg_delta[1], Len(Buffer))
                              = k + f.delta - 1
        /\ \A k \in ArgEnds :
              (Buffer[k].arg_delta = None) <=> (input[Buffer[k].offset + 1] = RBrace)

C3_Witness ==
    /\ FillingOk
    /\ \E k \in Functions :
          /\ Buffer[k].num_args = 2
          /\ Buffer[k].first_arg_delta # None
          /\ Buffer[k].first_arg_delta[1] >= 2
    /\ \E k \in Functions : Buffer[k].num_args = 0

\* The byte that ended the name of the Function token f.
NameEndByte(f) == input[f.offset + 1 + Len(f.name) + 1]

\* C4: after a successful filling pass, a Function whose name was ended by `}`
\* has num_args = 0, delta = 1 and first_arg_delta = None, and a Function has
\* delta > 1 iff it has at least one argument.
C4_NoArgFunction ==
    FillingOk =>
        \A k \in Functions :
            LET f == Buffer[k]
            IN  /\ NameEndByte(f) = RBrace =>
                      f.num_args = 0 /\ f.delta = 1 /\ f.first_arg_delta = None
                /\ (f.delta > 1) <=> (f.num_args >= 1)

C4_Witness ==
    /\ FillingOk
    /\ \E k \in Functions : NameEndByte(Buffer[k]) = RBrace /\ Buffer[k].name # <<>>
    /\ \E k \in Functions : Buffer[k].num_args >= 1

\* C5: when the input ends outside a function name with a function still open,
\* the sizing pass returns Ok(n) and the filling pass, given n tokens, returns
\* Err("unclosed function") at the `{` of the innermost open function.
C5_UnclosedFunction ==
    (Returned /\ AtEndOfInput.mode # "name" /\ AtEndOfInput.opens # <<>>) =>
        /\ pass = "sizing" => ret = Ok(output_index)
        /\ pass = "filling" =>
              /\ sizing_ret.tag = "Ok"
              /\ Len(Buffer) = sizing_ret.val
              /\ ret = Err(AtEndOfInput.opens[Len(AtEndOfInput.opens)],
                           "unclosed function")

C5_Witness ==
    /\ pass = "filling" /\ Returned
    /\ Len(AtEndOfInput.opens) = 2
    /\ ret.reason = "unclosed function" /\ ret.val > 0

\* C6: when the input ends inside a function name, both passes return
\* Err("function name wasn't completed") at the start of the name, one past
\* its `{`.
C6_IncompleteName ==
    (Returned /\ AtEndOfInput.mode = "name") =>
        ret = Err(AtEndOfInput.brace + 1, "function name wasn't completed")

C6_Witness ==
    /\ pass = "filling" /\ Returned
    /\ AtEndOfInput.mode = "name"
    /\ AtEndOfInput.brace >= 1
    /\ output_index >= 1
    /\ sizing_ret.reason = "function name wasn't completed"

\* The tokens already in the buffer, the stacks and the mode do not change.
NoStructuralChange ==
    /\ function_stack_index' = function_stack_index
    /\ function_arg_begin_stack_index' = function_arg_begin_stack_index
    /\ stack' = stack
    /\ function_name_begin' = None
    /\ ret' = Running
    /\ output # None =>
          \A k \in 1..output_index : output'[1][k] = Buffer[k]

\* The tokens the step appended to the buffer are exactly toks.
Appended(toks) ==
    /\ output_index' = output_index + Len(toks)
    /\ output # None =>
          \A k \in 1..Len(toks) : output'[1][output_index + k] = toks[k]
    /\ output = None => output' = None

\* C7: in normal text, a backslash at p (read with the escaped flag clear)
\* followed by byte b sends nothing itself; then b sends Character{p, b} alone
\* when b is `{`, `}`, `,` or `\`, and Character{p, backslash} followed by
\* Character{p+1, b} otherwise; b opens no name and moves no stack, at top
\* level and inside arguments.
C7_Escapes ==
    [][(Scanning /\ function_name_begin = None) =>
          /\ (~escaped /\ input[i + 1] = Backslash) =>
                escaped' /\ Appended(<<>>) /\ NoStructuralChange
          /\ escaped =>
                /\ i >= 1 /\ input[i] = Backslash
                /\ ~escaped' /\ NoStructuralChange
                /\ LET b == input[i + 1]
                   IN  IF b \in Escapable
                       THEN Appended(<<CharacterTok(i - 1, b)>>)
                       ELSE Appended(<<CharacterTok(i - 1, Backslash),
                                       CharacterTok(i, b)>>)]_vars

C7_Witness ==
    /\ pass = "filling" /\ ret.tag = "Running"
    /\ function_stack_index >= 1
    /\ i >= 2 /\ Lex(input, i - 1).mode = "esc"
    /\ input[i] = RBrace
    /\ Buffer[output_index] = CharacterTok(i - 2, RBrace)

\* C8: a backslash appended to an input whose scan ends in normal text with
\* the escaped flag clear changes nothing: the call on the longer input
\* returns the same result, the same count and the same tokens.
C8_TrailingBackslash ==
    (Returned /\ ~escaped /\ function_name_begin = None) =>
        LET longer == Append(input, Backslash)
            t == Tokenize(longer, ZeroStack(Len(longer)),
                          IF output = None THEN None
                          ELSE Some(InvalidBuffer(Len(Buffer))))
        IN  /\ t.ret = ret
            /\ t.output_index = output_index
            /\ t.output = output
            /\ t.escaped

C8_Witness ==
    /\ FillingOk /\ ~escaped
    /\ ret.val >= 3
    /\ Functions # {}

\* C9: at every point of the scan, in both passes, the forward stack (entries
\* 0 .. function_stack_index - 1) lies below the backward stack (entries
\* function_arg_begin_stack_index .. L - 1): the stacks never overlap.
C9_StacksDisjoint ==
    /\ 0 <= function_stack_index
    /\ function_stack_index <= function_arg_begin_stack_index
    /\ function_arg_begin_stack_index <= Len(stack)
    /\ Len(stack) = Len(input)

C9_Witness ==
    /\ function_stack_index = function_arg_begin_stack_index
    /\ function_stack_index >= 2

\* C10: the offsets of the tokens written so far by the filling pass never
\* decrease along the buffer.
C10_OffsetsMonotonic ==
    pass = "filling" =>
        \A j \in 1..output_index : \A k \in 1..output_index :
            j < k => Buffer[j].offset <= Buffer[k].offset

C10_Witness ==
    /\ FillingOk
    /\ \E k \in Functions :
          /\ k > 1 /\ k < Len(Buffer)
          /\ Buffer[k].name # <<>>
          /\ Buffer[k - 1].offset < Buffer[k].offset
          /\ Buffer[k + 1].kind = "Character"

\* The caller followed the protocol: the buffer of the filling pass has the
\* length the sizing pass returned.
Protocol == pass = "sizing" \/ sizing_ret.tag = "Ok"

\* C11: when the filling pass, given a buffer of the length the sizing pass
\* returned and pre-filled with Token::Invalid, returns Ok, no slot of the
\* buffer holds Token::Invalid.
C11_NoInvalidLeft ==
    (FillingOk /\ sizing_ret.tag = "Ok") =>
        \A k \in Tokens : Buffer[k] # Invalid /\ Buffer[k].kind # "Invalid"

C11_Witness ==
    /\ FillingOk /\ sizing_ret.tag = "Ok"
    /\ Len(Buffer) >= 4
    /\ \E k \in Tokens : Buffer[k].kind = "Character"
    /\ \E k \in Functions : Buffer[k].num_args = 2

\* C12: under the protocol tokenize never returns "internal error" (nor
\* aborts): the only errors are the incomplete name and the unclosed
\* function; and whenever a function is open in the filling pass, the top of
\* the forward stack indexes a Function token and the top of the backward
\* stack a Function or FunctionArgEnd token.
C12_NoInternalError ==
    Protocol =>
        /\ ret.tag \in {"Running", "Ok", "Err"}
        /\ ret.tag = "Err" =>
              ret.reason \in {"function name wasn't completed", "unclosed function"}
        /\ (pass = "filling" /\ function_stack_index >= 1) =>
              /\ \A j \in 1..function_stack_index :
                    /\ InBounds(stack[j], output_index)
                    /\ Buffer[stack[j] + 1].kind = "Function"
              /\ InBounds(function_arg_begin_stack_index, Len(stack))
              /\ InBounds(stack[function_arg_begin_stack_index + 1], output_index)
              /\ Buffer[stack[function_arg_begin_stack_index + 1] + 1].kind
                    \in {"Function", "FunctionArgEnd"}

C12_Witness ==
    /\ pass = "filling" /\ sizing_ret.tag = "Ok" /\ ret.tag = "Running"
    /\ function_stack_index = 2
    /\ Buffer[stack[function_arg_begin_stack_index + 1] + 1].kind = "FunctionArgEnd"
    /\ Buffer[stack[function_arg_begin_stack_index + 2] + 1].kind = "FunctionArgEnd"

\* The output argument as the caller passed it to the call that returned.
OutputAtEntry == IF output = None THEN None ELSE Some(InvalidBuffer(Len(Buffer)))

\* C13: the result of a call (Ok or Err, the count, every token written) is
\* the same whatever the scratch stack held at entry: the call that returned
\* here (on zeros in the sizing pass, on what the sizing pass left in the
\* filling pass) agrees with the call on any other scratch of that length.
C13_ScratchContentsIrrelevant ==
    Returned =>
        \A other \in OtherStacks(Len(input)) :
            LET t == Tokenize(input, other, OutputAtEntry)
            IN  /\ t.ret = ret
                /\ t.output_index = output_index
                /\ t.output = output

C13_Witness ==
    /\ FillingOk
    /\ stack # ZeroStack(Len(input))
    /\ \E k \in Functions : Buffer[k].num_args = 2
    /\ \E k \in Functions : Level(Buffer[k]) = 1

\* C14: in normal text with the escaped flag clear and no function open, an
\* unescaped `,` or `}` at position i sends one Character{i, byte}, moves no
\* stack, changes no earlier token and is no error; so does a `}` or `,`
\* after a function without arguments.
C14_TopLevelDelimiterIsText ==
    [][(/\ Scanning /\ function_name_begin = None /\ ~escaped
        /\ function_stack_index = 0
        /\ input[i + 1] \in {Comma, RBrace}) =>
          /\ Appended(<<CharacterTok(i, input[i + 1])>>)
          /\ NoStructuralChange
          /\ ~escaped'
          /\ i' = i + 1]_vars

C14_Witness ==
    /\ pass = "filling" /\ ret.tag = "Running"
    /\ function_stack_index = 0
    /\ i >= 4 /\ output_index >= 2
    /\ Buffer[output_index] = CharacterTok(i - 1, RBrace)
    /\ Buffer[output_index - 1].kind = "Function"
    /\ Buffer[output_index - 1].name # <<>>

\* The positions of the argument separators of the function opened by the
\* `{` at position p: the unescaped `,` and `}` read in normal text while
\* that function is the innermost open one.
Separators(p) ==
    {q \in 0..(Len(input) - 1) :
        LET r == Lex(input, q)
        IN  /\ r.mode = "text"
            /\ input[q + 1] \in {Comma, RBrace}
            /\ r.opens # <<>>
            /\ r.opens[Len(r.opens)] = p}

\* C15: after a successful filling pass, num_args of every Function token is
\* the number of argument separators of that function, its closing `}`
\* included and the bytes of nested functions excluded.
C15_NumArgsCountsSeparators ==
    FillingOk =>
        \A k \in Functions :
            Buffer[k].num_args = Cardinality(Separators(Buffer[k].offset))

C15_Witness ==
    /\ FillingOk
    /\ \E k \in Functions : \E m \in Functions :
          /\ Level(Buffer[k]) = 0 /\ Level(Buffer[m]) = 1
          /\ Buffer[k].num_args >= 1 /\ Buffer[m].num_args >= 1

\* C16: when the input ends inside a function name while outer functions are
\* still open, both passes return the incomplete-name error at the start of
\* the inner name; the unclosed function is not what is reported.
C16_NameErrorFirst ==
    (Returned /\ AtEndOfInput.mode = "name" /\ AtEndOfInput.opens # <<>>) =>
        /\ ret.tag = "Err"
        /\ ret.reason = "function name wasn't completed"
        /\ ret.reason # "unclosed function"
        /\ ret.val = AtEndOfInput.brace + 1
        /\ ret.val > AtEndOfInput.opens[Len(AtEndOfInput.opens)] + 1

C16_Witness ==
    /\ pass = "filling" /\ Returned
    /\ AtEndOfInput.mode = "name"
    /\ Len(AtEndOfInput.opens) >= 1
    /\ function_stack_index >= 1
    /\ ret.tag = "Err"

\* C17: at every point of a filling pass the stacks hold one entry per open
\* function: at depth j the forward entry is the index of that function's
\* Function token, whose delta is still unset, and the backward entry is the
\* index of the last marker written for that function (the Function itself
\* before its first delimiter, its latest FunctionArgEnd after), whose
\* first_arg_delta/arg_delta is still None.  The depths of the two stacks are
\* equal: a delimiter replaces the backward top.
C17_StackContents ==
    pass = "filling" =>
        LET opens == Lex(input, i).opens
            len == Len(stack)
        IN  /\ function_stack_index = Len(opens)
            /\ function_arg_begin_stack_index = len - function_stack_index
            /\ \A j \in 1..function_stack_index :
                  LET fi == stack[j]
                      bi == stack[len - j + 1]
                  IN  /\ InBounds(fi, output_index)
                      /\ Buffer[fi + 1].kind = "Function"
                      /\ Buffer[fi + 1].offset = opens[j]
                      /\ Buffer[fi + 1].delta = 0
                      /\ fi <= bi /\ bi < output_index
                      /\ IF bi = fi
                         THEN /\ Buffer[fi + 1].first_arg_delta = None
                              /\ Buffer[fi + 1].num_args = 0
                         ELSE /\ Buffer[bi + 1].kind = "FunctionArgEnd"
                              /\ Buffer[bi + 1].arg_delta = None
                              /\ Level(Buffer[bi + 1]) = j
                              /\ Buffer[fi + 1].first_arg_delta # None
                      /\ \A m \in (bi + 2)..output_index :
                            ~(/\ Buffer[m].kind = "FunctionArgEnd"
                              /\ Level(Buffer[m]) = j)

C17_Witness ==
    /\ pass = "filling" /\ ret.tag = "Running"
    /\ function_stack_index = 2
    /\ stack[Len(stack)] # stack[1]
    /\ stack[Len(stack) - 1] = stack[2]
    /\ Buffer[stack[1] + 1].num_args = 1

\* C18: in the filling pass one argument delimiter appends exactly the token
\* FunctionArgEnd{offset: i, arg_delta: None} and changes, among the tokens
\* already written, only num_args (+1) of the innermost open Function, the
\* first_arg_delta/arg_delta (None to Some) of the marker on top of the
\* backward stack and, for `}`, delta of the popped Function.
C18_DelimiterFrame ==
    [][(/\ Scanning /\ pass = "filling"
        /\ function_name_begin = None /\ ~escaped
        /\ function_stack_index >= 1
        /\ input[i + 1] \in {Comma, RBrace}) =>
          LET ftop == stack[function_stack_index] + 1
              btop == stack[function_arg_begin_stack_index + 1] + 1
              old == Buffer
              new == output'[1]
              closing == input[i + 1] = RBrace
          IN  /\ ret' = Running
              /\ output_index' = output_index + 1
              /\ Len(new) = Len(old)
              /\ new[output_index + 1] = FunctionArgEndTok(i, None)
              /\ \A k \in (output_index + 2)..Len(old) : new[k] = old[k]
              /\ \A k \in 1..output_index :
                    /\ new[k].kind = old[k].kind
                    /\ new[k].offset = old[k].offset
                    /\ old[k].kind = "Character" => new[k] = old[k]
                    /\ old[k].kind = "Function" =>
                          /\ new[k].name = old[k].name
                          /\ new[k].num_args =
                                old[k].num_args + (IF k = ftop THEN 1 ELSE 0)
                          /\ IF k = ftop /\ closing
                             THEN new[k].delta = output_index' - (k - 1)
                             ELSE new[k].delta = old[k].delta
                          /\ IF k = btop
                             THEN /\ old[k].first_arg_delta = None
                                  /\ new[k].first_arg_delta = Some(output_index - (k - 1))
                             ELSE new[k].first_arg_delta = old[k].first_arg_delta
                    /\ old[k].kind = "FunctionArgEnd" =>
                          IF k = btop
                          THEN /\ old[k].arg_delta = None
                               /\ new[k].arg_delta = Some(output_index - (k - 1))
                          ELSE new[k].arg_delta = old[k].arg_delta]_vars

C18_Witness ==
    /\ pass = "filling" /\ ret.tag = "Running"
    /\ i >= 1 /\ input[i] = RBrace
    /\ Lex(input, i - 1).mode = "text"
    /\ Len(Lex(input, i - 1).opens) = 2
    /\ function_stack_index = 1
    /\ Buffer[output_index] = FunctionArgEndTok(i - 1, None)

\* C19: while a function name is collected, a byte other than `,` and `}`
\* sends no token and changes nothing but the position (a backslash does not
\* set the escaped flag, a `{` opens nothing); the first `,` or `}` sends one
\* Function whose name is the raw input from one past the `{` up to that
\* byte and whose offset is the `{`.
C19_RawName ==
    [][(Scanning /\ function_name_begin # None) =>
          LET v == function_name_begin[1]
              b == input[i + 1]
          IN  /\ ~escaped /\ ~escaped'
              /\ v >= 1 /\ v <= i /\ input[v] = LBrace
              /\ \A q \in (v + 1)..i : input[q] \notin {Comma, RBrace}
              /\ b \notin {Comma, RBrace} =>
                    /\ Appended(<<>>)
                    /\ output' = output
                    /\ function_name_begin' = function_name_begin
                    /\ function_stack_index' = function_stack_index
                    /\ function_arg_begin_stack_index' = function_arg_begin_stack_index
                    /\ stack' = stack
                    /\ ret' = Running /\ i' = i + 1
              /\ b \in {Comma, RBrace} =>
                    /\ function_name_begin' = None
                    /\ output_index' = output_index + 1
                    /\ output # None =>
                          LET f == output'[1][output_index + 1]
                          IN  /\ f.kind = "Function"
                              /\ f.offset = v - 1
                              /\ f.name = [q \in 1..(i - v) |-> input[v + q]]]_vars

C19_Witness ==
    /\ FillingOk
    /\ \E k \in Functions :
          /\ Buffer[k].name = <<Backslash, LBrace>>
          /\ NameEndByte(Buffer[k]) = Comma
          /\ Buffer[k].num_args = 1

\* C20: the offset of every token written by the filling pass points at the
\* byte that caused it: a `{` for a Function; an unescaped `,` or `}` in
\* normal text for a FunctionArgEnd; for a Character either the byte val
\* itself or the backslash that escapes val.
C20_OffsetsPointAtCause ==
    pass = "filling" =>
        \A k \in 1..output_index :
            LET tok == Buffer[k]
                at == tok.offset + 1
            IN  /\ at \in 1..Len(input)
                /\ tok.kind = "Function" => input[at] = LBrace
                /\ tok.kind = "FunctionArgEnd" =>
                      /\ input[at] \in {Comma, RBrace}
                      /\ Lex(input, tok.offset).mode = "text"
                      /\ Lex(input, tok.offset).opens # <<>>
                /\ tok.kind = "Character" =>
                      \/ input[at] = tok.val
                      \/ /\ input[at] = Backslash
                         /\ at + 1 <= Len(input)
                         /\ input[at + 1] = tok.val

C20_Witness ==
    /\ FillingOk
    /\ Functions # {} /\ ArgEnds # {}
    /\ \E k \in Tokens :
          /\ Buffer[k].kind = "Character"
          /\ Buffer[k].val = RBrace
          /\ input[Buffer[k].offset + 1] = Backslash

\* C21: at every point of the scan the token count is at most the number of
\* input bytes consumed so far, so a sizing pass that succeeds returns at
\* most the input's length.
C21_CountAtMostConsumed ==
    /\ output_index <= i
    /\ i <= Len(input)
    /\ ret.tag = "Ok" => ret.val <= Len(input)

C21_Witness ==
    /\ pass = "sizing" /\ ret.tag = "Ok"
    /\ ret.val = Len(input) /\ Len(input) >= 3
    /\ \E p \in 1..Len(input) : input[p] = Backslash

\* C22: at every point of the scan the two stacks have the same depth
\* (function_stack_index + function_arg_begin_stack_index = L) and twice that
\* depth is at most the number of bytes consumed so far.
C22_EqualDepths ==
    /\ function_stack_index + function_arg_begin_stack_index = Len(input)
    /\ Len(stack) - function_arg_begin_stack_index = function_stack_index
    /\ 2 * function_stack_index <= i

C22_Witness ==
    /\ function_stack_index = 3
    /\ 2 * function_stack_index = i
    /\ function_arg_begin_stack_index = 3

\* The number of tokens the next iteration sends.
Sends ==
    LET b == Branch(input, Cur)
    IN  IF b = "escaped_other" THEN 2
        ELSE IF b \in {"escaped_special", "character", "delimiter", "name_end"} THEN 1
        ELSE 0

\* C23: under the protocol no index computation underflows or leaves its
\* buffer: i - 1 and v - 1 are taken from values >= 1, the stack indices are
\* decremented from values >= 1, output_index - index has index <=
\* output_index, every scratch access is inside [0, L), every write or patch
\* of the output is below the buffer's length, and every token offset and
\* error offset lies in [0, L].
C23_IndicesInRange ==
    Protocol =>
        /\ ret.tag # "Panic"
        /\ ret.tag = "Err" => ret.val \in 0..Len(input)
        /\ output # None =>
              \A k \in 1..output_index : Buffer[k].offset \in 0..Len(input)
        /\ Scanning =>
              LET b == Branch(input, Cur)
                  len == Len(stack)
              IN  /\ b \in {"escaped_special", "escaped_other"} => i >= 1
                  /\ output # None => output_index + Sends <= Len(Buffer)
                  /\ b \in {"name_end", "name_continue"} =>
                        /\ function_name_begin[1] >= 1
                        /\ function_name_begin[1] <= i
                  /\ (b = "name_end" /\ input[i + 1] = Comma) =>
                        /\ InBounds(function_stack_index, len)
                        /\ function_arg_begin_stack_index >= 1
                        /\ InBounds(function_arg_begin_stack_index - 1, len)
                  /\ b = "delimiter" =>
                        /\ function_stack_index >= 1
                        /\ InBounds(function_stack_index - 1, len)
                        /\ InBounds(function_arg_begin_stack_index, len)
                        /\ output # None =>
                              /\ InBounds(stack[function_stack_index], Len(Buffer))
                              /\ InBounds(stack[function_arg_begin_stack_index + 1],
                                          Len(Buffer))
                              /\ stack[function_stack_index] <= output_index
                              /\ stack[function_arg_begin_stack_index + 1]
                                    <= output_index
        /\ (ret.tag = "Running" /\ i = Len(input) /\ output # None
            /\ function_name_begin = None /\ function_stack_index # 0) =>
              /\ InBounds(function_stack_index - 1, Len(stack))
              /\ InBounds(stack[function_stack_index], Len(Buffer))

C23_Witness ==
    /\ pass = "filling" /\ sizing_ret.tag = "Ok" /\ Returned
    /\ function_stack_index = 3
    /\ function_arg_begin_stack_index = 3
    /\ ret.reason = "unclosed function"
    /\ ret.val = 4

====
